---- MODULE Spec2Model ----
(***************************************************************************)
(* Model of the weather application in src/main.py: the Done button's      *)
(* callback WeatherApp.__fetch_weather, the classes it drives (WeatherAPI, *)
(* WeatherData, WeatherDisplay) and the city selection.                    *)
(*                                                                         *)
(* Python values are tagged records: [t |-> "dict", d |-> record],         *)
(* [t |-> "list", l |-> sequence], [t |-> "str", s |-> string],            *)
(* [t |-> "int", v |-> integer], [t |-> "null"], and [t |-> "num",         *)
(* centi |-> T] for the JSON number literal T/100 (parsed by json to the   *)
(* nearest IEEE-754 double).  A call returns Ok(value) or Raise(class,     *)
(* message).                                                               *)
(***************************************************************************)
EXTENDS Integers, Sequences, FiniteSets, TLC

VARIABLES city_name, display, last, triggers, nonempty_triggers,
          http_gets, failures, shown_payload, repeated

vars == <<city_name, display, last, triggers, nonempty_triggers,
          http_gets, failures, shown_payload, repeated>>

(* Most Done clicks explored in one behaviour. *)
MaxTriggers == 3

(* ------------------------------------------------------------------ *)
(* Python values, results and exceptions                               *)
(* ------------------------------------------------------------------ *)
Ok(v) == [ok |-> TRUE, val |-> v]

Raise(cls, msg) == [ok |-> FALSE, exc |-> cls, msg |-> msg]

PyStr(s) == [t |-> "str", s |-> s]

PyInt(v) == [t |-> "int", v |-> v]

PyNum(centi) == [t |-> "num", centi |-> centi]

PyNull == [t |-> "null"]

PyList(l) == [t |-> "list", l |-> l]

PyDict(d) == [t |-> "dict", d |-> d]

(* The exception classes the model raises, each with its base classes. *)
Bases(cls) ==
    CASE cls = "WeatherAPIError" -> {"WeatherAPIError", "Exception"}
      [] cls = "ValueError"      -> {"ValueError", "Exception"}
      [] cls = "JSONDecodeError" -> {"JSONDecodeError", "ValueError", "Exception"}
      [] cls = "KeyError"        -> {"KeyError", "LookupError", "Exception"}
      [] cls = "IndexError"      -> {"IndexError", "LookupError", "Exception"}
      [] cls = "TypeError"       -> {"TypeError", "Exception"}
      [] cls = "ConnectionError" -> {"ConnectionError", "RequestException", "Exception"}
      [] cls = "HTTPError"       -> {"HTTPError", "RequestException", "Exception"}
      [] cls = "RequestsJSONDecodeError" ->
            {"RequestsJSONDecodeError", "InvalidJSONError", "RequestException",
             "JSONDecodeError", "ValueError", "Exception"}
      [] OTHER                   -> {cls, "Exception"}

(* except (A, B): the clause catches an exception of any listed class. *)
Catches(classes, cls) == Bases(cls) \cap classes # {}

(* obj[key] for a string key: dict lookup, or a TypeError. *)
GetItem(obj, key) ==
    CASE obj.t = "dict" ->
            IF key \in DOMAIN obj.d THEN Ok(obj.d[key])
            ELSE Raise("KeyError", key)
      [] obj.t = "list" -> Raise("TypeError", "list indices must be integers")
      [] OTHER -> Raise("TypeError", "object is not subscriptable")

(* obj[i] for an integer i >= 0: list index; a dict decoded from JSON has
   no integer key. *)
GetIndex(obj, i) ==
    CASE obj.t = "list" ->
            IF i + 1 \in 1..Len(obj.l) THEN Ok(obj.l[i + 1])
            ELSE Raise("IndexError", "list index out of range")
      [] obj.t = "dict" -> Raise("KeyError", ToString(i))
      [] OTHER -> Raise("TypeError", "object is not subscriptable")

(* ------------------------------------------------------------------ *)
(* IEEE-754 double arithmetic on temperatures                          *)
(*                                                                     *)
(* For T/100 in [256, 512) one unit in the last place is 2^-44, so the *)
(* double nearest to T/100 is T/100 + FloatErr(T) / (25 * 2^44).  The  *)
(* difference of two such doubles is exact (Sterbenz), so a float is   *)
(* kept as [D, E]: the value D/100 + E / (25 * 2^44), |E| <= 24.       *)
(* ------------------------------------------------------------------ *)
KelvinOffsetCenti == 27315

FloatErr(T) ==
    LET r == (4 * T) % 25
    IN  IF r <= 12 THEN 0 - r ELSE 25 - r

(* As SubKelvin, subtracting 273 instead of 273.15. *)
SubKelvin_273(temp) ==
    CASE temp.t = "num" ->
            Ok([D |-> temp.centi - 27300, E |-> FloatErr(temp.centi)])
      [] OTHER -> Raise("TypeError", "unsupported operand type(s) for -")

(* main_data['temp'] - 273.15 *)
SubKelvin(temp) ==
    CASE temp.t = "num" ->
            Ok([D |-> temp.centi - KelvinOffsetCenti,
                E |-> FloatErr(temp.centi) - FloatErr(KelvinOffsetCenti)])
      [] OTHER -> Raise("TypeError", "unsupported operand type(s) for -")

(* round(x, 1): the tenth nearest to the exact value of x, an exact tie
   going to the even tenth; the sign of x is kept on a zero result. *)
Round1(x) ==
    LET q  == x.D \div 10
        r  == x.D % 10
        n  == IF r < 5 THEN q
              ELSE IF r > 5 THEN q + 1
              ELSE IF x.E > 0 THEN q + 1
              ELSE IF x.E < 0 THEN q
              ELSE IF q % 2 = 0 THEN q ELSE q + 1
        xneg == x.D < 0 \/ (x.D = 0 /\ x.E < 0)
    IN  [neg |-> IF n = 0 THEN xneg ELSE n < 0,
         tenths |-> IF n < 0 THEN 0 - n ELSE n]

(* repr of a float with one decimal, as an f-string inserts it. *)
FloatRepr(f) ==
    (IF f.neg THEN "-" ELSE "") \o ToString(f.tenths \div 10) \o "."
        \o ToString(f.tenths % 10)

(* str() of a value inserted into an f-string or a label text. *)
PyFormat(v) ==
    CASE v.t = "str"   -> v.s
      [] v.t = "int"   -> ToString(v.v)
      [] v.t = "float" -> FloatRepr(v.f)
      [] v.t = "null"  -> "None"
      [] OTHER         -> "?"

(* ------------------------------------------------------------------ *)
(* WeatherAPI                                                          *)
(* ------------------------------------------------------------------ *)
api_key == ""

base_url == "https://api.openweathermap.org/data/2.5/weather"

(* requests.get(url): the transport either fails to connect or hands
   back a response with a status code and a body. *)
requests_get(resp) ==
    IF resp.kind = "ConnectionError" THEN Raise("ConnectionError", resp.cause)
    ELSE Ok(resp)

(* As raise_for_status, never raising. *)
raise_for_status_never(response) == Ok(PyNull)

(* response.raise_for_status(): HTTPError for a 4xx or 5xx status. *)
raise_for_status(response) ==
    IF response.status >= 400 /\ response.status < 600
    THEN Raise("HTTPError", ToString(response.status) \o " Error")
    ELSE Ok(PyNull)

(* response.json(): the decoded body; a body that is not JSON raises
   requests' JSONDecodeError, a RequestException since requests 2.27 and
   a plain ValueError subclass before. *)
response_json(response) ==
    IF response.body.json THEN Ok(response.body.value)
    ELSE IF response.body.legacy
         THEN Raise("JSONDecodeError", "Expecting value")
         ELSE Raise("RequestsJSONDecodeError", "Expecting value")

(* except requests.RequestException as e: raise WeatherAPIError(...) *)
wrap_request_error(r) ==
    IF ~r.ok /\ Catches({"RequestException"}, r.exc)
    THEN Raise("WeatherAPIError", "Failed to fetch weather data: " \o r.msg)
    ELSE r

(* As get_weather, trying a second GET when the first raised. *)
get_weather_retry(city, resp) ==
    LET url      == base_url \o "?q=" \o city \o "&appid=" \o api_key
        response == requests_get(resp)
        status   == IF response.ok THEN raise_for_status(response.val)
                    ELSE response
        body     == IF status.ok THEN response_json(response.val) ELSE status
    IN  [res |-> wrap_request_error(body), url |-> url,
         gets |-> IF body.ok THEN 1 ELSE 2]

(* WeatherAPI.get_weather: the result, the URL requested and the number
   of HTTP GETs issued. *)
get_weather(city, resp) ==
    LET url      == base_url \o "?q=" \o city \o "&appid=" \o api_key
        response == requests_get(resp)
        status   == IF response.ok THEN raise_for_status(response.val)
                    ELSE response
        body     == IF status.ok THEN response_json(response.val) ELSE status
    IN  [res |-> wrap_request_error(body), url |-> url, gets |-> 1]

(* ------------------------------------------------------------------ *)
(* WeatherData                                                         *)
(* ------------------------------------------------------------------ *)
(* r[key] once r has been evaluated without raising. *)
Then(r, key) == IF r.ok THEN GetItem(r.val, key) ELSE r

(* The first result of a sequence of steps that raised. *)
FirstRaise(steps) ==
    LET bad == {i \in 1..Len(steps) : ~steps[i].ok}
    IN  steps[CHOOSE i \in bad : \A j \in bad : i <= j]

(* As first_weather, taking the last element of the list. *)
last_weather(raw_data) ==
    LET w == GetItem(raw_data, "weather")
    IN  IF w.ok /\ w.val.t = "list" /\ Len(w.val.l) > 0
        THEN GetIndex(w.val, Len(w.val.l) - 1)
        ELSE IF w.ok THEN GetIndex(w.val, 0) ELSE w

(* self.__raw_data['weather'][0] *)
first_weather(raw_data) ==
    LET w == GetItem(raw_data, "weather")
    IN  IF w.ok THEN GetIndex(w.val, 0) ELSE w

(* WeatherData.__init__ / __process_data: the five private fields, or the
   exception of the first access, in source order, that raises. *)
WeatherData(raw_data) ==
    LET weather   == first_weather(raw_data)
        main_data == GetItem(raw_data, "main")
        temp      == Then(main_data, "temp")
        steps == << weather,
                    main_data,
                    Then(weather, "main"),
                    Then(weather, "description"),
                    IF temp.ok THEN SubKelvin(temp.val) ELSE temp,
                    Then(main_data, "pressure"),
                    Then(main_data, "humidity") >>
    IN  IF \A i \in 1..Len(steps) : steps[i].ok
        THEN Ok([climate |-> steps[3].val, description |-> steps[4].val,
                 temperature |-> steps[5].val, pressure |-> steps[6].val,
                 humidity |-> steps[7].val])
        ELSE FirstRaise(steps)

climate(wd) == wd.climate

description(wd) == wd.description

temperature(wd) == [t |-> "float", f |-> Round1(wd.temperature)]

pressure(wd) == wd.pressure

humidity(wd) == wd.humidity

(* The values of the five properties of a WeatherData. *)
Properties(wd) ==
    [climate |-> climate(wd), description |-> description(wd),
     temperature |-> temperature(wd), pressure |-> pressure(wd),
     humidity |-> humidity(wd)]

(* ------------------------------------------------------------------ *)
(* WeatherDisplay                                                      *)
(* ------------------------------------------------------------------ *)
(* __create_labels: the five value labels start with an empty text. *)
create_labels ==
    [climate_value |-> "", desc_value |-> "", temp_value |-> "",
     pressure_value |-> "", humidity_value |-> ""]

(* As update_display, writing only into labels that are still empty. *)
update_display_once(labels, wd) ==
    IF labels.climate_value # "" THEN labels
    ELSE [climate_value |-> PyFormat(climate(wd)),
          desc_value |-> PyFormat(description(wd)),
          temp_value |-> PyFormat(temperature(wd)) \o "°C",
          pressure_value |-> PyFormat(pressure(wd)) \o " hPa",
          humidity_value |-> PyFormat(humidity(wd)) \o "%"]

(* update_display: five label.config(text=...) calls in order. *)
update_display(labels, wd) ==
    LET l1 == [labels EXCEPT !.climate_value = PyFormat(climate(wd))]
        l2 == [l1 EXCEPT !.desc_value = PyFormat(description(wd))]
        l3 == [l2 EXCEPT !.temp_value = PyFormat(temperature(wd)) \o "°C"]
        l4 == [l3 EXCEPT !.pressure_value = PyFormat(pressure(wd)) \o " hPa"]
    IN  [l4 EXCEPT !.humidity_value = PyFormat(humidity(wd)) \o "%"]

(* ------------------------------------------------------------------ *)
(* WeatherApp                                                          *)
(* ------------------------------------------------------------------ *)
INDIAN_STATES == {"Goa", "Tamil Nadu"}

NoRecord == [t |-> "none"]

(* As city_missing, accepting every selection. *)
city_missing_never(city) == FALSE

(* if not city *)
city_missing(city) == city = ""

(* __show_error: the line printed to the console. *)
show_error(message) == "Error: " \o message

(* As finish, blanking the value labels when an error ends the flow. *)
finish_blank_on_error(labels, out, gets, built) ==
    IF out.ok
    THEN [display |-> update_display(labels, out.val),
          outcome |-> "rendered", exc |-> "none", printed |-> "",
          record |-> Properties(out.val), http_gets |-> gets,
          weatherdata_calls |-> built, update_calls |-> 1,
          show_error_calls |-> 0]
    ELSE IF Catches({"WeatherAPIError", "ValueError"}, out.exc)
    THEN [display |-> create_labels, outcome |-> "error_shown", exc |-> out.exc,
          printed |-> show_error(out.msg),
          record |-> NoRecord, http_gets |-> gets,
          weatherdata_calls |-> built, update_calls |-> 0,
          show_error_calls |-> 1]
    ELSE [display |-> create_labels, outcome |-> "escaped", exc |-> out.exc,
          printed |-> "Exception in Tkinter callback",
          record |-> NoRecord, http_gets |-> gets,
          weatherdata_calls |-> built, update_calls |-> 0,
          show_error_calls |-> 0]

(* The try body's last statement and the except clause of
   __fetch_weather: out is what the statements before update_display
   produced.  A WeatherAPIError or ValueError is reported by __show_error;
   any other exception leaves the method and is reported by Tk's callback
   wrapper, which prints a traceback and returns to the main loop. *)
finish(labels, out, gets, built) ==
    IF out.ok
    THEN [display |-> update_display(labels, out.val),
          outcome |-> "rendered", exc |-> "none", printed |-> "",
          record |-> Properties(out.val), http_gets |-> gets,
          weatherdata_calls |-> built, update_calls |-> 1,
          show_error_calls |-> 0]
    ELSE IF Catches({"WeatherAPIError", "ValueError"}, out.exc)
    THEN [display |-> labels, outcome |-> "error_shown", exc |-> out.exc,
          printed |-> show_error(out.msg),
          record |-> NoRecord, http_gets |-> gets,
          weatherdata_calls |-> built, update_calls |-> 0,
          show_error_calls |-> 1]
    ELSE [display |-> labels, outcome |-> "escaped", exc |-> out.exc,
          printed |-> "Exception in Tkinter callback",
          record |-> NoRecord, http_gets |-> gets,
          weatherdata_calls |-> built, update_calls |-> 0,
          show_error_calls |-> 0]

(* As fetch_weather, keeping the record already shown instead of
   rendering the new one. *)
fetch_weather_cached(city, labels, resp) ==
    IF city_missing(city)
    THEN finish(labels, Raise("ValueError", "Please select a city"), 0, 0)
    ELSE LET gw == get_weather(city, resp)
         IN  IF gw.res.ok
             THEN IF labels # create_labels /\ WeatherData(gw.res.val).ok
                  THEN [display |-> labels, outcome |-> "rendered",
                        exc |-> "none", printed |-> "", record |-> NoRecord,
                        http_gets |-> gw.gets, weatherdata_calls |-> 1,
                        update_calls |-> 0, show_error_calls |-> 0]
                  ELSE finish(labels, WeatherData(gw.res.val), gw.gets, 1)
             ELSE finish(labels, gw.res, gw.gets, 0)

(* WeatherApp.__fetch_weather, called with the selection, the labels and
   the transport's answer: validate, fetch, build the WeatherData, update
   the display; the first exception ends the try body. *)
fetch_weather(city, labels, resp) ==
    IF city_missing(city)
    THEN finish(labels, Raise("ValueError", "Please select a city"), 0, 0)
    ELSE LET gw == get_weather(city, resp)
         IN  IF gw.res.ok
             THEN finish(labels, WeatherData(gw.res.val), gw.gets, 1)
             ELSE finish(labels, gw.res, gw.gets, 0)

(* ------------------------------------------------------------------ *)
(* The environment: selections and transport answers                   *)
(* ------------------------------------------------------------------ *)
(* Temperatures in hundredths of a kelvin, all inside [256 K, 512 K):
   the lowest one, a negative Celsius value ending in 5, just below
   freezing, 273.15, Celsius values of 0.05 and 0.25 (an exact tie),
   298.15 and 300.0. *)
Temps == {25600, 26000, 27311, 27315, 27320, 27340, 29815, 30000}

Entry(main, desc) == PyDict([main |-> PyStr(main), description |-> PyStr(desc)])

Main(temp, p, h) == PyDict([temp |-> temp, pressure |-> p, humidity |-> h])

Payload(entries, m) == PyDict([weather |-> PyList(entries), main |-> m])

Clouds == Entry("Clouds", "overcast clouds")

Main0 == Main(PyNum(29815), PyInt(1012), PyInt(77))

WellFormedPayloads ==
    { Payload(<<Clouds>>, Main(PyNum(T), PyInt(1012), PyInt(77))) : T \in Temps }
    \cup { Payload(<<Entry("Rain", "light rain"), Entry("Mist", "mist")>>,
                   Main(PyNum(29960), PyInt(998), PyInt(100))) }

MissingWeather == PyDict([main |-> Main0])

EmptyWeather == Payload(<<>>, Main0)

IllShapedPayloads ==
    { MissingWeather,
      EmptyWeather,
      PyDict([weather |-> PyNull, main |-> Main0]),
      Payload(<<PyDict([description |-> PyStr("overcast clouds")])>>, Main0),
      Payload(<<PyDict([main |-> PyStr("Clouds")])>>, Main0),
      PyDict([weather |-> PyList(<<Clouds>>)]),
      Payload(<<Clouds>>, PyDict([pressure |-> PyInt(1012), humidity |-> PyInt(77)])),
      Payload(<<Clouds>>, Main(PyStr("298.15"), PyInt(1012), PyInt(77))),
      Payload(<<Clouds>>, Main(PyNull, PyInt(1012), PyInt(77))),
      Payload(<<Clouds>>, PyDict([temp |-> PyNum(29815), humidity |-> PyInt(77)])),
      Payload(<<Clouds>>, PyDict([temp |-> PyNum(29815), pressure |-> PyInt(1012)])),
      Payload(<<Clouds>>, Main(PyNum(29815), PyStr("high"), PyInt(77))),
      PyList(<<>>),
      PyNull }

JsonBody(v) == [json |-> TRUE, value |-> v]

NotJsonBodies == { [json |-> FALSE, legacy |-> b] : b \in BOOLEAN }

Responses ==
    { [kind |-> "ConnectionError", cause |-> c] :
          c \in {"Name or service not known", "Connection refused"} }
    \cup { [kind |-> "http", status |-> s,
            body |-> JsonBody(PyDict([cod |-> PyInt(s)]))] : s \in {401, 500} }
    \cup { [kind |-> "http", status |-> 200, body |-> b] : b \in NotJsonBodies }
    \cup { [kind |-> "http", status |-> 304, body |-> b] :
              b \in {JsonBody(Payload(<<Clouds>>, Main0)),
                     [json |-> FALSE, legacy |-> TRUE]} }
    \cup { [kind |-> "http", status |-> 200, body |-> JsonBody(v)] :
              v \in WellFormedPayloads \cup IllShapedPayloads }

NoResponse == [kind |-> "none"]

NoPayload == [t |-> "none"]

(* ------------------------------------------------------------------ *)
(* State machine                                                       *)
(* ------------------------------------------------------------------ *)
(* WeatherApp.__init__: an empty StringVar, empty value labels, no Done
   click yet. *)
Init ==
    /\ city_name = ""
    /\ display = create_labels
    /\ last = [city |-> "", resp |-> NoResponse, outcome |-> "none",
               exc |-> "none", printed |-> "", record |-> NoRecord,
               http_gets |-> 0, weatherdata_calls |-> 0, update_calls |-> 0,
               show_error_calls |-> 0]
    /\ triggers = 0
    /\ nonempty_triggers = 0
    /\ http_gets = 0
    /\ failures = 0
    /\ shown_payload = NoPayload
    /\ repeated = FALSE

(* city_name is the StringVar; display holds the texts of the five value
   labels; last describes the most recent run of __fetch_weather (its
   inputs, how it ended and the calls it made); triggers, nonempty_triggers,
   http_gets and failures count Done clicks, clicks with a selection, HTTP
   GETs and runs that did not render; shown_payload is the payload of the
   most recent run that rendered; repeated tells whether the last click had
   the same selection and transport answer as the one before. *)

(* The user picks a state in the combobox, or clears its text. *)
SelectCity ==
    /\ \E c \in INDIAN_STATES \cup {""} :
          /\ c # city_name
          /\ city_name' = c
    /\ UNCHANGED <<display, last, triggers, nonempty_triggers, http_gets,
                   failures, shown_payload, repeated>>

(* The Done button: one run of __fetch_weather against one answer of the
   transport. *)
Done ==
    /\ triggers < MaxTriggers
    /\ \E resp \in Responses :
          LET city == city_name
              r    == fetch_weather(city, display, resp)
              seen == IF r.http_gets > 0 THEN resp ELSE NoResponse
          IN  /\ display' = r.display
              /\ repeated' = (last.outcome # "none" /\ last.city = city
                                /\ last.resp = seen)
              /\ last' = [city |-> city,
                          resp |-> seen,
                          outcome |-> r.outcome, exc |-> r.exc,
                          printed |-> r.printed, record |-> r.record,
                          http_gets |-> r.http_gets,
                          weatherdata_calls |-> r.weatherdata_calls,
                          update_calls |-> r.update_calls,
                          show_error_calls |-> r.show_error_calls]
              /\ triggers' = triggers + 1
              /\ nonempty_triggers' =
                    nonempty_triggers + (IF city = "" THEN 0 ELSE 1)
              /\ http_gets' = http_gets + r.http_gets
              /\ failures' = failures + (IF r.outcome = "rendered" THEN 0 ELSE 1)
              /\ shown_payload' =
                    IF r.outcome = "rendered" THEN resp.body.value
                    ELSE shown_payload
    /\ UNCHANGED city_name

Next == SelectCity \/ Done

Spec == Init /\ [][Next]_vars

(* ------------------------------------------------------------------ *)
(* Vocabulary of the properties                                        *)
(* ------------------------------------------------------------------ *)
Invoked == last.outcome # "none"

(* The last run's fetch returned a payload (a decoded JSON body). *)
FetchReturned(l) ==
    /\ l.resp.kind = "http"
    /\ ~(l.resp.status >= 400 /\ l.resp.status < 600)
    /\ l.resp.body.json

PayloadOf(l) == l.resp.body.value

LacksWeather(p) ==
    /\ p.t = "dict"
    /\ \/ "weather" \notin DOMAIN p.d
       \/ (p.d.weather.t = "list" /\ Len(p.d.weather.l) = 0)

ConnectionFailed(resp) == resp.kind = "ConnectionError"

Non2xx(resp) ==
    resp.kind = "http" /\ ~(resp.status >= 200 /\ resp.status < 300)

ErrorStatus(resp) ==
    resp.kind = "http" /\ resp.status >= 400 /\ resp.status < 600

CauseText(resp) ==
    IF resp.kind = "ConnectionError" THEN resp.cause
    ELSE ToString(resp.status) \o " Error"

ValueText(v) == IF v.t = "int" THEN ToString(v.v) ELSE v.s

SignedTenths(f) == IF f.neg THEN 0 - f.tenths ELSE f.tenths

Abs(n) == IF n < 0 THEN 0 - n ELSE n

(* The label texts the interface description gives for a payload whose
   record has the Celsius value celsius. *)
ExpectedLabels(p, celsius) ==
    [climate_value  |-> p.d.weather.l[1].d.main.s,
     desc_value     |-> p.d.weather.l[1].d.description.s,
     temp_value     |-> FloatRepr(celsius) \o "°C",
     pressure_value |-> ValueText(p.d.main.d.pressure) \o " hPa",
     humidity_value |-> ValueText(p.d.main.d.humidity) \o "%"]

CelsiusOf(p) == Round1(SubKelvin(p.d.main.d.temp).val)

(* One Done click happened in this step. *)
Clicked == triggers' = triggers + 1

(* ------------------------------------------------------------------ *)
(* Properties                                                          *)
(* ------------------------------------------------------------------ *)

(* C1: whenever the fetch returned a payload whose `weather` key is
   missing or an empty sequence, the flow ends in a reported error
   (__show_error is called) and no exception leaves the flow. *)
C1_MissingWeatherReported ==
    (Invoked /\ FetchReturned(last) /\ LacksWeather(PayloadOf(last)))
        => (last.outcome = "error_shown" /\ last.show_error_calls = 1)

(* C2: a Done click with an empty selection reports the validation error
   through __show_error and issues no network request, whatever happened
   before. *)
C2_EmptySelectionNoRequest ==
    [][(Clicked /\ city_name = "")
          => /\ last'.outcome = "error_shown"
             /\ last'.exc = "ValueError"
             /\ last'.show_error_calls = 1
             /\ last'.printed = "Error: Please select a city"
             /\ last'.http_gets = 0
             /\ http_gets' = http_gets]_vars

C2_Witness ==
    /\ last.city = "" /\ last.outcome = "error_shown"
    /\ last.http_gets = 0 /\ triggers >= 2 /\ http_gets >= 1

(* C3: no run of __fetch_weather lets an exception out: every run ends
   rendered or with its error passed to __show_error. *)
C3_NoErrorEscapes ==
    Invoked =>
        /\ last.outcome \in {"rendered", "error_shown"}
        /\ (last.outcome = "error_shown" => last.show_error_calls = 1)

(* C4 as stated: on a connection failure or any non-2xx status,
   get_weather raises WeatherAPIError, no WeatherData is built,
   update_display is not called and the error is reported once. *)
C4_Non2xxStops ==
    (Invoked /\ last.city # ""
        /\ (ConnectionFailed(last.resp) \/ Non2xx(last.resp)))
        => /\ last.exc = "WeatherAPIError"
           /\ last.weatherdata_calls = 0
           /\ last.update_calls = 0
           /\ last.show_error_calls = 1

(* C4, amended: on a connection failure or a 4xx/5xx status, get_weather
   raises WeatherAPIError wrapping the cause, no WeatherData is built,
   update_display is not called, the labels stay as they were and the
   error is reported once through __show_error. *)
C4_TransportFailureStops ==
    [][(Clicked /\ last'.city # ""
          /\ (ConnectionFailed(last'.resp) \/ ErrorStatus(last'.resp)))
          => /\ last'.exc = "WeatherAPIError"
             /\ last'.outcome = "error_shown"
             /\ last'.printed = "Error: Failed to fetch weather data: "
                                   \o CauseText(last'.resp)
             /\ last'.http_gets = 1
             /\ last'.weatherdata_calls = 0
             /\ last'.update_calls = 0
             /\ last'.show_error_calls = 1
             /\ display' = display]_vars

C4_Witness ==
    /\ last.city # "" /\ ErrorStatus(last.resp)
    /\ last.exc = "WeatherAPIError" /\ last.show_error_calls = 1
    /\ display # create_labels

(* C5: after a failed run (validation, fetch or parse), a later click
   with a non-empty city and a well-formed successful response completes
   the flow and renders the new record. *)
C5_UsableAfterFailure ==
    [][(Clicked /\ failures > 0 /\ last'.city # ""
          /\ FetchReturned(last') /\ PayloadOf(last') \in WellFormedPayloads)
          => /\ last'.outcome = "rendered"
             /\ last'.update_calls = 1
             /\ display' = ExpectedLabels(PayloadOf(last'),
                                          CelsiusOf(PayloadOf(last')))]_vars

C5_Witness ==
    /\ failures = 2 /\ triggers = 3
    /\ last.outcome = "rendered"
    /\ display = ExpectedLabels(PayloadOf(last), CelsiusOf(PayloadOf(last)))

(* C6: every run with a non-empty city issues exactly one HTTP GET, so
   the number of GETs always equals the number of clicks made with a
   non-empty selection. *)
C6_OneGetPerRun ==
    /\ http_gets = nonempty_triggers
    /\ (Invoked /\ last.city # "" => last.http_gets = 1)
    /\ (Invoked /\ last.city = "" => last.http_gets = 0)

C6_Witness ==
    /\ triggers = 3 /\ http_gets = 2 /\ failures >= 1
    /\ last.city # "" /\ last.outcome = "error_shown"

(* C7: for a rendered well-formed payload with temp = T/100 kelvin, the
   temperature lies within 0.05 of T/100 - 273.15 and has one decimal;
   273.15 gives 0.0, 298.15 gives 25.0 and 300.0 gives 26.9. *)
C7_CelsiusRounded ==
    (last.outcome = "rendered" /\ PayloadOf(last) \in WellFormedPayloads)
        => LET T == PayloadOf(last).d.main.d.temp.centi
               f == last.record.temperature.f
               n == SignedTenths(f)
           IN  /\ Abs(10 * n - (T - 27315)) <= 5
               /\ (T = 27315 => n = 0 /\ ~f.neg)
               /\ (T = 29815 => n = 250)
               /\ (T = 30000 => n = 269)
               /\ display.temp_value = FloatRepr(f) \o "°C"

C7_Witness ==
    /\ last.outcome = "rendered"
    /\ PayloadOf(last).d.main.d.temp = PyNum(30000)
    /\ display.temp_value = "26.9°C"

(* C8: on a successful flow with a well-formed payload the labels show
   weather[0].main, weather[0].description, "<celsius>°C",
   "<main.pressure> hPa" and "<main.humidity>%", pressure and humidity
   being the payload's values unchanged. *)
C8_RenderedValues ==
    (last.outcome = "rendered" /\ PayloadOf(last) \in WellFormedPayloads)
        => LET p == PayloadOf(last)
           IN  /\ display = ExpectedLabels(p, last.record.temperature.f)
               /\ last.record.pressure = p.d.main.d.pressure
               /\ last.record.humidity = p.d.main.d.humidity
               /\ (p = Payload(<<Clouds>>, Main0) =>
                     display = [climate_value |-> "Clouds",
                                desc_value |-> "overcast clouds",
                                temp_value |-> "25.0°C",
                                pressure_value |-> "1012 hPa",
                                humidity_value |-> "77%"])

C8_Witness ==
    /\ last.outcome = "rendered"
    /\ Len(PayloadOf(last).d.weather.l) = 2
    /\ display.climate_value = "Rain" /\ display.pressure_value = "998 hPa"

(* C9: two consecutive runs with the same city and the same transport
   answer end the same way, with equal records or equal errors. *)
C9_SameInputsSameOutcome ==
    [][(Clicked /\ Invoked /\ last'.city = last.city /\ last'.resp = last.resp)
          => /\ last'.outcome = last.outcome
             /\ last'.record = last.record
             /\ last'.exc = last.exc
             /\ last'.printed = last.printed]_vars

C9_Witness ==
    /\ repeated /\ last.city = "Goa" /\ last.outcome = "rendered"
    /\ last.record.temperature.f = [neg |-> TRUE, tenths |-> 131]

(* C10: the five value labels are all empty while no flow has succeeded,
   and otherwise all come from the payload of the most recent successful
   flow; a failing run leaves them unchanged. *)
C10_DisplayFromOnePayload ==
    /\ [](IF shown_payload = NoPayload
          THEN display = create_labels
          ELSE display = ExpectedLabels(shown_payload, CelsiusOf(shown_payload)))
    /\ [][(Clicked /\ last'.outcome # "rendered") => display' = display]_vars

C10_Witness ==
    /\ last.outcome = "escaped"
    /\ shown_payload # NoPayload
    /\ display = ExpectedLabels(shown_payload, CelsiusOf(shown_payload))
    /\ display.humidity_value = "100%"

====
